---- MODULE Spec2Model ----
(***************************************************************************)
(* Model of the WebCrawler class of src/crawler.js: the crawl() polling    *)
(* loop, the fetchAndProcess tasks it dispatches, the unawaited            *)
(* handleRetry invocations with their backoff timers, and the              *)
(* adjustRateLimit delay controller.                                       *)
(*                                                                         *)
(* JavaScript runs every callback to completion.  A step of the model is   *)
(* one synchronous segment of the program: a turn of the while loop in     *)
(* crawl(), the continuation of fetchAndProcess after axios.get settles    *)
(* (with the .finally callback that follows it in the same microtask       *)
(* drain), or the continuation of handleRetry after its timer fires.       *)
(* While crawl() is between two awaits (crawlPc = "running") no other      *)
(* callback can run.                                                       *)
(***************************************************************************)
EXTENDS Integers, Sequences, FiniteSets, TLC

\* ------------------------------------------------------------------ bounds
MaxConcurrencyBound == 2  \* maxConcurrency ranges over 1..MaxConcurrencyBound
MaxRetriesBound == 1      \* maxRetries ranges over 0..MaxRetriesBound

MaxTestCalls == 4         \* direct handleRetry calls a test makes on its URL
MaxAdjustCalls == 6       \* adjustRateLimit calls in a row on one crawler

\* ------------------------------------------------------- program constants
DefaultMaxConcurrency == 5  \* constructor(startUrl, maxConcurrency = 5, ...)
DefaultMaxRetries == 3      \* constructor(..., maxRetries = 3)
InitialDelay == 100       \* this.dynamicDelay = 100
BackoffFloor == 1000      \* Math.max(this.dynamicDelay * 2, 1000)
DelayFloor == 100         \* Math.max(100, this.dynamicDelay / 2)

\* -------------------------------------------------------------------- URLs
\* An absolute URL is its hostname and a path number; new URL(u).hostname
\* reads the hostname back.
SeedHost == "example.com"
OtherHost == "valid-link.com"

\* The site explored: the seed (path 0) and two more pages on its host, and
\* one page on another host.
InternalUrls == [host : {SeedHost}, path : {0, 1, 2}]
ExternalUrls == [host : {OtherHost}, path : {0}]
Urls == InternalUrls \cup ExternalUrls

startUrl == [host |-> SeedHost, path |-> 0]

\* The seed as the string handed to the constructor.
SeedString == "http://example.com"

\* this.domainName = new URL(startUrl).hostname
domainName == SeedHost

Hostname(u) == u.host

\* A page with three anchors, whose first link comes back after another
\* one.
RepeatingPage ==
    <<[host |-> SeedHost, path |-> 1], [host |-> SeedHost, path |-> 2],
      [host |-> SeedHost, path |-> 1]>>

\* What extractLinks can return for a page: absolute URLs in document order,
\* duplicates and other hosts included.  Pages with no anchor, one anchor
\* and two anchors are explored, and the three-anchor page above.
LinkSeqs ==
    {<<>>} \cup {<<a>> : a \in Urls} \cup (Urls \X Urls) \cup {RepeatingPage}

\* ----------------------------------------------------------------- headers
\* A header mapping as adjustRateLimit reads it: the parsed value of
\* x-ratelimit-remaining and of retry-after, Absent when the header is
\* missing.  defined = FALSE is the JavaScript value undefined
\* (error.response?.headers of a network error).
Absent == -1

NoHeaders == [defined |-> FALSE, remaining |-> Absent, retryAfter |-> Absent]

\* The headers of a successful response: no rate-limit header, or the quota
\* that is left.
ResponseHeaders ==
    [defined : {TRUE}, remaining : {Absent, 5}, retryAfter : {Absent}]

\* What a failed GET carries: nothing (a network error has no response), or
\* the headers of a throttling response, quota used up and retry-after: 5.
ThrottledHeaders == [defined |-> TRUE, remaining |-> 0, retryAfter |-> 5]

ErrorHeaders == {NoHeaders, ThrottledHeaders}

VARIABLES
    visitedUrls,      \* this.visitedUrls
    urlQueue,         \* this.urlQueue
    maxConcurrency,   \* this.maxConcurrency
    activeRequests,   \* this.activeRequests
    maxRetries,       \* this.maxRetries
    retryCounts,      \* this.retryCounts, defined on the URLs with an entry
    crawledData,      \* this.crawledData
    failedUrls,       \* this.failedUrls
    dynamicDelay,     \* this.dynamicDelay
    crawlPc,          \* where crawl() is: "idle" (not called yet), "running",
                      \* "delay" (awaiting this.delay) or "done"
    fetching,         \* per URL, the fetchAndProcess tasks awaiting axios.get
    retrying,         \* the handleRetry invocations awaiting their backoff
                      \* timer, oldest first
    output,           \* what writeToFiles wrote: <<>> before, one record after
    crashed,          \* whether the process was ended by an unhandled rejection
    gets,             \* history: per URL, the number of GETs issued for it
    enqueued,         \* history: the URLs ever put in urlQueue
    retryCalls,       \* history: per URL, the number of handleRetry calls
    lastAdjust,       \* history: the latest adjustRateLimit call, as the
                      \* headers it was given and the delay it found
    construction,     \* history: the seed new WebCrawler was given and the
                      \* message of the error it threw, if any
    pageLinks,        \* history: per fetched URL, the sequence extractLinks
                      \* returned for its page
    enqueueOrder      \* history: the URLs ever put in urlQueue, in the order
                      \* in which each was first put there

vars == <<visitedUrls, urlQueue, maxConcurrency, activeRequests, maxRetries,
          retryCounts, crawledData, failedUrls, dynamicDelay, crawlPc,
          fetching, retrying, output, crashed, gets, enqueued, retryCalls,
          lastAdjust, construction, pageLinks, enqueueOrder>>

\* The empty object {}.
EmptyMap == [u \in {} |-> 0]

\* obj[key] = value
Put(obj, key, value) == (key :> value) @@ obj

Max(a, b) == IF a >= b THEN a ELSE b

\* The elements of a sequence.
Range(s) == {s[i] : i \in 1 .. Len(s)}

\* order followed by the elements of s that are new to it, each once, in
\* the order of s: how the history of first enqueues grows.
RECURSIVE AppendNew(_, _)
AppendNew(order, s) ==
    IF s = <<>> THEN order
    ELSE AppendNew(IF Head(s) \in Range(order)
                   THEN order
                   ELSE Append(order, Head(s)),
                   Tail(s))

\* ------------------------------------------------------------ pure helpers
\* Mutant: the distinct elements in order of last occurrence.
RECURSIVE UniqueLinksKeepLast(_)
UniqueLinksKeepLast(links) ==
    IF links = <<>> THEN <<>>
    ELSE LET back == UniqueLinksKeepLast(Tail(links))
         IN IF Head(links) \in Range(back)
            THEN back
            ELSE <<Head(links)>> \o back

\* [...new Set(links)]: the distinct elements in order of first occurrence.
RECURSIVE UniqueLinks(_)
UniqueLinks(links) ==
    IF links = <<>> THEN <<>>
    ELSE LET front == UniqueLinks(SubSeq(links, 1, Len(links) - 1))
             last == links[Len(links)]
         IN IF last \in Range(front) THEN front ELSE Append(front, last)

\* Mutant: the hostname test is dropped.
EnqueueFilterAnyHost(link, visited) == link \notin visited

\* The links the for loop of fetchAndProcess pushes, in order: every
\* occurrence that is not visited and whose hostname is domainName.
EnqueueFilter(link, visited) ==
    link \notin visited /\ Hostname(link) = domainName

\* Mutant: the deduplicated list is what gets enqueued.
LinksToEnqueueOnce(links, visited) ==
    SelectSeq(UniqueLinks(links), LAMBDA link : EnqueueFilter(link, visited))

LinksToEnqueue(links, visited) ==
    SelectSeq(links, LAMBDA link : EnqueueFilter(link, visited))

\* Mutant: the halved delay is not floored.
HalveDelayNoFloor(delay) == delay \div 2

\* this.dynamicDelay / 2 floored at 100.  The quotient is exact whenever it
\* is kept: the delays the program reaches are 100 and 125 * 2^k.
HalveDelay(delay) ==
    IF delay < 2 * DelayFloor THEN DelayFloor ELSE delay \div 2

\* Mutant: the doubled delay is not floored at 1000.
QuotaAdjustNoBackoffFloor(delay, headers) ==
    IF headers.remaining # Absent
    THEN IF headers.remaining = 0 THEN delay * 2 ELSE HalveDelay(delay)
    ELSE delay

\* Lines 131-141 of adjustRateLimit: the x-ratelimit-remaining adjustment.
QuotaAdjust(delay, headers) ==
    IF headers.remaining # Absent
    THEN IF headers.remaining = 0
         THEN Max(delay * 2, BackoffFloor)
         ELSE HalveDelay(delay)
    ELSE delay

\* Whether adjustRateLimit(headers) ends in a rejected promise: reading a
\* property of undefined throws on line 131, and with a retry-after header
\* line 145 calls log, which is defined nowhere.
AdjustRejects(headers) ==
    \/ ~headers.defined
    \/ headers.retryAfter # Absent

\* adjustRateLimit is async and none of its callers awaits or catches it, so
\* its rejection is an unhandled rejection.  What follows depends on the
\* runtime: Node.js before version 15 only warns and the program goes on,
\* version 15 and later end the process once the current callback is over.
\* The value is the set of outcomes for crashed.
UnhandledRejection(rejected) == IF rejected THEN {FALSE, TRUE} ELSE {FALSE}

\* this.dynamicDelay after adjustRateLimit(headers).  With a retry-after
\* header the call throws on line 145, before line 147 assigns, so the
\* delay keeps the value the quota adjustment gave it.
adjustRateLimit(delay, headers) ==
    IF ~headers.defined THEN delay
    ELSE QuotaAdjust(delay, headers)

\* The value of lastAdjust before the first adjustRateLimit call.
NoCall == [headers |-> NoHeaders, before |-> Absent]

\* ------------------------------------------------------------- constructor
\* The JavaScript value undefined: an argument left out, a field never
\* assigned.
Undefined == "undefined"

\* Seeds the constructor can be handed: none, the empty string, a string
\* new URL() cannot parse, and the seed itself.
SeedInputs == {Undefined, "", "invalid-url", SeedString}

\* Whether new URL(seed) returns rather than throws.
ParsesAsUrl(seed) == seed = SeedString

NoError == "none"
RequiredError == "Start URL is required."
InvalidError == "Invalid URL provided."

\* Mutant: one message for both failures.
ConstructorErrorSameMessage(seed) ==
    IF seed \in {Undefined, ""} \/ ~ParsesAsUrl(seed)
    THEN RequiredError
    ELSE NoError

\* Lines 8-17: the error the constructor throws for a seed, if any.
\* !startUrl is true of undefined and of the empty string.
ConstructorError(seed) ==
    IF seed \in {Undefined, ""} THEN RequiredError
    ELSE IF ~ParsesAsUrl(seed) THEN InvalidError
    ELSE NoError

\* ------------------------------------------------------------------- state
\* new WebCrawler(startUrl, concurrency, retries), lines 7-28, and the
\* history variables at their start.
constructor(concurrency, retries) ==
    /\ visitedUrls = {}
    /\ urlQueue = <<startUrl>>
    /\ maxConcurrency = concurrency
    /\ activeRequests = 0
    /\ maxRetries = retries
    /\ retryCounts = EmptyMap
    /\ crawledData = EmptyMap
    /\ failedUrls = EmptyMap
    /\ dynamicDelay = InitialDelay
    /\ crawlPc = "idle"
    /\ fetching = [u \in Urls |-> 0]
    /\ retrying = <<>>
    /\ output = <<>>
    /\ crashed = FALSE
    /\ gets = [u \in Urls |-> 0]
    /\ enqueued = {startUrl}
    /\ retryCalls = [u \in Urls |-> 0]
    /\ lastAdjust = NoCall
    /\ construction = [seed |-> SeedString, error |-> NoError]
    /\ pageLinks = EmptyMap
    /\ enqueueOrder = <<startUrl>>

Init ==
    \E concurrency \in 1 .. MaxConcurrencyBound :
        \E retries \in 0 .. MaxRetriesBound :
            constructor(concurrency, retries)

\* ----------------------------------------------------------------- crawl()
\* The while condition on line 32.
LoopCondition == Len(urlQueue) > 0 \/ activeRequests > 0

\* Mutant: the capacity test off by one.
HasCapacityInclusive == activeRequests <= maxConcurrency

\* this.activeRequests < this.maxConcurrency on line 33.
HasCapacity == activeRequests < maxConcurrency

\* Mutant: no visited gate, every dequeued URL is dispatched.
NotVisitedUngated(url) == TRUE

\* The visited gate on line 35.
NotVisited(url) == url \notin visitedUrls

\* crawl() is called, once every earlier call on the object has been awaited.
CrawlStart ==
    /\ ~crashed
    /\ crawlPc = "idle"
    /\ retrying = <<>>
    /\ crawlPc' = "running"
    /\ UNCHANGED <<visitedUrls, urlQueue, maxConcurrency, activeRequests,
                   maxRetries, retryCounts, crawledData, failedUrls,
                   dynamicDelay, fetching, retrying, output, gets, enqueued,
                   retryCalls, crashed, lastAdjust, construction, pageLinks,
                   enqueueOrder>>

\* Mutant: the URL dispatched is taken from the tail of the queue.
CrawlDispatchFromTail ==
    /\ ~crashed
    /\ crawlPc = "running"
    /\ LoopCondition
    /\ HasCapacity /\ Len(urlQueue) > 0
    /\ LET url == urlQueue[Len(urlQueue)]
       IN /\ NotVisited(url)
          /\ urlQueue' = SubSeq(urlQueue, 1, Len(urlQueue) - 1)
          /\ visitedUrls' = visitedUrls \cup {url}
          /\ activeRequests' = activeRequests + 1
          /\ fetching' = [fetching EXCEPT ![url] = @ + 1]
          /\ gets' = [gets EXCEPT ![url] = @ + 1]
    /\ UNCHANGED <<maxConcurrency, maxRetries, retryCounts, crawledData,
                   failedUrls, dynamicDelay, crawlPc, retrying, output,
                   enqueued, retryCalls, crashed, lastAdjust, construction,
                   pageLinks, enqueueOrder>>

\* Lines 33-38 for an unvisited head: mark it visited, count the request and
\* call fetchAndProcess, which issues the GET before its first await.
CrawlDispatch ==
    /\ ~crashed
    /\ crawlPc = "running"
    /\ LoopCondition
    /\ HasCapacity /\ Len(urlQueue) > 0
    /\ LET url == Head(urlQueue)
       IN /\ NotVisited(url)
          /\ urlQueue' = Tail(urlQueue)
          /\ visitedUrls' = visitedUrls \cup {url}
          /\ activeRequests' = activeRequests + 1
          /\ fetching' = [fetching EXCEPT ![url] = @ + 1]
          /\ gets' = [gets EXCEPT ![url] = @ + 1]
    /\ UNCHANGED <<maxConcurrency, maxRetries, retryCounts, crawledData,
                   failedUrls, dynamicDelay, crawlPc, retrying, output,
                   enqueued, retryCalls, crashed, lastAdjust, construction,
                   pageLinks, enqueueOrder>>

\* Lines 33-35 for a head that is already visited: it is shifted off the
\* queue and the loop goes round again without a delay.
CrawlDiscard ==
    /\ ~crashed
    /\ crawlPc = "running"
    /\ LoopCondition
    /\ HasCapacity /\ Len(urlQueue) > 0
    /\ ~NotVisited(Head(urlQueue))
    /\ urlQueue' = Tail(urlQueue)
    /\ UNCHANGED <<visitedUrls, maxConcurrency, activeRequests, maxRetries,
                   retryCounts, crawledData, failedUrls, dynamicDelay, crawlPc,
                   fetching, retrying, output, gets, enqueued, retryCalls,
                   crashed, lastAdjust, construction, pageLinks, enqueueOrder>>

\* Lines 40-41: no capacity or nothing queued, so crawl() awaits
\* this.delay(this.dynamicDelay).
CrawlWait ==
    /\ ~crashed
    /\ crawlPc = "running"
    /\ LoopCondition
    /\ ~(HasCapacity /\ Len(urlQueue) > 0)
    /\ crawlPc' = "delay"
    /\ UNCHANGED <<visitedUrls, urlQueue, maxConcurrency, activeRequests,
                   maxRetries, retryCounts, crawledData, failedUrls,
                   dynamicDelay, fetching, retrying, output, gets, enqueued,
                   retryCalls, crashed, lastAdjust, construction, pageLinks,
                   enqueueOrder>>

\* The poll timer of line 41 fires and crawl() goes back to the while.
DelayElapsed ==
    /\ ~crashed
    /\ crawlPc = "delay"
    /\ crawlPc' = "running"
    /\ UNCHANGED <<visitedUrls, urlQueue, maxConcurrency, activeRequests,
                   maxRetries, retryCounts, crawledData, failedUrls,
                   dynamicDelay, fetching, retrying, output, gets, enqueued,
                   retryCalls, crashed, lastAdjust, construction, pageLinks,
                   enqueueOrder>>

\* writeToFiles: both mappings as they are at that moment.
writeToFiles == <<[crawledData |-> crawledData, failedUrls |-> failedUrls]>>

\* Lines 32 and 45-49: the while condition is false, crawl() writes the
\* results and returns.
CrawlComplete ==
    /\ ~crashed
    /\ crawlPc = "running"
    /\ ~LoopCondition
    /\ output' = writeToFiles
    /\ crawlPc' = "done"
    /\ UNCHANGED <<visitedUrls, urlQueue, maxConcurrency, activeRequests,
                   maxRetries, retryCounts, crawledData, failedUrls,
                   dynamicDelay, fetching, retrying, gets, enqueued,
                   retryCalls, crashed, lastAdjust, construction, pageLinks,
                   enqueueOrder>>

\* ------------------------------------------------------- fetchAndProcess()
\* Mutant: the counter is not decremented when a fetch settles.
FinallyCallbackLost(active) == active

\* The .finally callback of line 38.
FinallyCallback(active) == active - 1

\* Mutant: the exhausted branch records the failure and requeues all the
\* same.
handleRetryAlwaysRequeue(url, headers) ==
    LET counts == IF url \in DOMAIN retryCounts
                  THEN retryCounts
                  ELSE Put(retryCounts, url, 0)
    IN /\ IF counts[url] < maxRetries
          THEN /\ retryCounts' = [counts EXCEPT ![url] = @ + 1]
               /\ failedUrls' = failedUrls
          ELSE /\ retryCounts' = counts
               /\ failedUrls' = Put(failedUrls, url, counts[url])
       /\ retrying' = Append(retrying, [url |-> url, headers |-> headers])
       /\ urlQueue' = urlQueue
       /\ retryCalls' = [retryCalls EXCEPT ![url] = @ + 1]

\* Mutant: the failure is recorded as soon as the count reaches maxRetries.
handleRetryEagerFail(url, headers) ==
    LET counts == IF url \in DOMAIN retryCounts
                  THEN retryCounts
                  ELSE Put(retryCounts, url, 0)
    IN /\ IF counts[url] < maxRetries
          THEN /\ retryCounts' = [counts EXCEPT ![url] = @ + 1]
               /\ retrying' =
                     Append(retrying, [url |-> url, headers |-> headers])
               /\ failedUrls' = IF counts[url] + 1 = maxRetries
                                THEN Put(failedUrls, url, counts[url] + 1)
                                ELSE failedUrls
          ELSE /\ retryCounts' = counts
               /\ failedUrls' = Put(failedUrls, url, counts[url])
               /\ retrying' = retrying
       /\ urlQueue' = urlQueue
       /\ retryCalls' = [retryCalls EXCEPT ![url] = @ + 1]

\* Mutant: the count is incremented on every call.
handleRetryUncapped(url, headers) ==
    LET counts == IF url \in DOMAIN retryCounts
                  THEN retryCounts
                  ELSE Put(retryCounts, url, 0)
    IN /\ retryCounts' = [counts EXCEPT ![url] = @ + 1]
       /\ IF counts[url] < maxRetries
          THEN /\ retrying' =
                     Append(retrying, [url |-> url, headers |-> headers])
               /\ failedUrls' = failedUrls
          ELSE /\ failedUrls' = Put(failedUrls, url, counts[url])
               /\ retrying' = retrying
       /\ urlQueue' = urlQueue
       /\ retryCalls' = [retryCalls EXCEPT ![url] = @ + 1]

\* Lines 85-109 up to the await of line 97: the synchronous part of
\* handleRetry(url, headers).  Below maxRetries the count is incremented and
\* the invocation suspends in its backoff delay, keeping url and headers;
\* otherwise the URL is recorded in failedUrls.  Neither branch touches the
\* queue before the delay has elapsed.
handleRetry(url, headers) ==
    LET counts == IF url \in DOMAIN retryCounts
                  THEN retryCounts
                  ELSE Put(retryCounts, url, 0)
    IN /\ IF counts[url] < maxRetries
          THEN /\ retryCounts' = [counts EXCEPT ![url] = @ + 1]
               /\ retrying' =
                     Append(retrying, [url |-> url, headers |-> headers])
               /\ failedUrls' = failedUrls
          ELSE /\ retryCounts' = counts
               /\ failedUrls' = Put(failedUrls, url, counts[url])
               /\ retrying' = retrying
       /\ urlQueue' = urlQueue
       /\ retryCalls' = [retryCalls EXCEPT ![url] = @ + 1]

\* Mutant: the links a page yields are marked visited when they are
\* enqueued.
FetchSucceedsMarksDiscovered(url, links, headers) ==
    /\ ~crashed
    /\ crawlPc \in {"delay", "done"}
    /\ fetching[url] > 0
    /\ fetching' = [fetching EXCEPT ![url] = @ - 1]
    /\ crawledData' = Put(crawledData, url, UniqueLinks(links))
    /\ pageLinks' = Put(pageLinks, url, links)
    /\ dynamicDelay' = adjustRateLimit(dynamicDelay, headers)
    /\ lastAdjust' = [headers |-> headers, before |-> dynamicDelay]
    /\ crashed' \in UnhandledRejection(AdjustRejects(headers))
    /\ urlQueue' = urlQueue \o LinksToEnqueue(links, visitedUrls)
    /\ enqueued' = enqueued \cup Range(LinksToEnqueue(links, visitedUrls))
    /\ enqueueOrder' =
          AppendNew(enqueueOrder, LinksToEnqueue(links, visitedUrls))
    /\ visitedUrls' = visitedUrls \cup Range(LinksToEnqueue(links, visitedUrls))
    /\ activeRequests' = FinallyCallback(activeRequests)
    /\ UNCHANGED <<maxConcurrency, maxRetries, retryCounts, failedUrls,
                   crawlPc, retrying, output, gets, retryCalls, construction>>

\* Lines 57-77 and the .finally of line 38: axios.get(url) resolved with a
\* page whose anchors resolve to links and with the response's headers.
FetchSucceeds(url, links, headers) ==
    /\ ~crashed
    /\ crawlPc \in {"delay", "done"}
    /\ fetching[url] > 0
    /\ fetching' = [fetching EXCEPT ![url] = @ - 1]
    /\ crawledData' = Put(crawledData, url, UniqueLinks(links))
    /\ pageLinks' = Put(pageLinks, url, links)
    /\ dynamicDelay' = adjustRateLimit(dynamicDelay, headers)
    /\ lastAdjust' = [headers |-> headers, before |-> dynamicDelay]
    /\ crashed' \in UnhandledRejection(AdjustRejects(headers))
    /\ urlQueue' = urlQueue \o LinksToEnqueue(links, visitedUrls)
    /\ enqueued' = enqueued \cup Range(LinksToEnqueue(links, visitedUrls))
    /\ enqueueOrder' =
          AppendNew(enqueueOrder, LinksToEnqueue(links, visitedUrls))
    /\ activeRequests' = FinallyCallback(activeRequests)
    /\ UNCHANGED <<visitedUrls, maxConcurrency, maxRetries, retryCounts,
                   failedUrls, crawlPc, retrying, output, gets, retryCalls,
                   construction>>

\* Lines 78-81 and the .finally of line 38: axios.get(url) rejected, with
\* the error response's headers or none.  handleRetry is called and not
\* awaited, so fetchAndProcess settles as soon as handleRetry suspends.
FetchFails(url, headers) ==
    /\ ~crashed
    /\ crawlPc \in {"delay", "done"}
    /\ fetching[url] > 0
    /\ fetching' = [fetching EXCEPT ![url] = @ - 1]
    /\ handleRetry(url, headers)
    /\ activeRequests' = FinallyCallback(activeRequests)
    /\ UNCHANGED <<visitedUrls, maxConcurrency, maxRetries, crawledData,
                   dynamicDelay, crawlPc, output, gets, enqueued, crashed,
                   lastAdjust, construction, pageLinks, enqueueOrder>>

\* Lines 99-103: the backoff timer of the oldest suspended handleRetry
\* fires.  Every backoff delay is 2^(100 * count) ms, which setTimeout
\* clamps to the same minimum, so the timers fire in the order they were
\* set.  The headers are applied if there are any, and the URL is pushed.
BackoffElapsed ==
    /\ ~crashed
    /\ crawlPc # "running"
    /\ retrying # <<>>
    /\ LET r == Head(retrying)
       IN /\ dynamicDelay' = IF r.headers.defined
                             THEN adjustRateLimit(dynamicDelay, r.headers)
                             ELSE dynamicDelay
          /\ lastAdjust' = IF r.headers.defined
                           THEN [headers |-> r.headers, before |-> dynamicDelay]
                           ELSE lastAdjust
          /\ crashed' \in UnhandledRejection(r.headers.defined
                                                /\ AdjustRejects(r.headers))
          /\ urlQueue' = Append(urlQueue, r.url)
          /\ enqueued' = enqueued \cup {r.url}
          /\ enqueueOrder' = AppendNew(enqueueOrder, <<r.url>>)
    /\ retrying' = Tail(retrying)
    /\ UNCHANGED <<visitedUrls, maxConcurrency, activeRequests, maxRetries,
                   retryCounts, crawledData, failedUrls, crawlPc, fetching,
                   output, gets, retryCalls, construction, pageLinks>>

\* ----------------------------------------------------------- specification
Next ==
    \/ CrawlStart
    \/ CrawlDispatch
    \/ CrawlDiscard
    \/ CrawlWait
    \/ DelayElapsed
    \/ CrawlComplete
    \/ \E url \in Urls, links \in LinkSeqs, headers \in ResponseHeaders :
          FetchSucceeds(url, links, headers)
    \/ \E url \in Urls, headers \in ErrorHeaders : FetchFails(url, headers)
    \/ BackoffElapsed

Spec == Init /\ [][Next]_vars

\* Weak fairness for the steps of crawl(), which nothing can disable once
\* they are enabled; strong fairness for the network and the backoff timers,
\* whose callbacks cannot run during a synchronous turn of the loop but do
\* run once it awaits: every issued GET settles and every timer fires.
FairSpec ==
    /\ Spec
    /\ WF_vars(CrawlStart \/ CrawlDispatch \/ CrawlDiscard \/ CrawlWait
                 \/ CrawlComplete)
    /\ WF_vars(DelayElapsed)
    /\ \A url \in Urls :
          SF_vars((\E links \in LinkSeqs, headers \in ResponseHeaders :
                       FetchSucceeds(url, links, headers))
                  \/ (\E headers \in ErrorHeaders : FetchFails(url, headers)))
    /\ SF_vars(BackoffElapsed)

\* ------------------------------------------------- the unit tests' harness
\* src/crawler.test.js builds the crawler with the default parameters and
\* calls handleRetry directly on its own URL, awaiting each call, before
\* anything else runs.
retryUrl == [host |-> SeedHost, path |-> 1]

TestInit == constructor(DefaultMaxConcurrency, DefaultMaxRetries)

\* await crawler.handleRetry(url): the call is made with no headers, and
\* the next call waits for BackoffElapsed to finish this one.
TestHandleRetry ==
    /\ ~crashed
    /\ crawlPc = "idle"
    /\ retrying = <<>>
    /\ retryCalls[retryUrl] < MaxTestCalls
    /\ handleRetry(retryUrl, NoHeaders)
    /\ UNCHANGED <<visitedUrls, maxConcurrency, activeRequests, maxRetries,
                   crawledData, dynamicDelay, crawlPc, fetching, output, gets,
                   enqueued, crashed, lastAdjust, construction, pageLinks,
                   enqueueOrder>>

TestNext ==
    \/ TestHandleRetry
    \/ Next

TestSpec == TestInit /\ [][TestNext]_vars

\* ------------------------------------------- adjustRateLimit on any headers
\* Every combination of the two headers adjustRateLimit reads: the quota
\* header missing, zero or non-zero, and retry-after missing, 0 or 5 seconds.
AllHeaders ==
    [defined : {TRUE}, remaining : {Absent, 0, 1, 5},
     retryAfter : {Absent, 0, 5}]

\* A crawler whose maxRetries lets one URL go MaxAdjustCalls times through
\* the retry branch of handleRetry, the caller of adjustRateLimit that takes
\* the headers it is handed.
RateInit == constructor(DefaultMaxConcurrency, MaxAdjustCalls)

\* await crawler.handleRetry(url, headers) with the headers of an error
\* response, or with none: after the backoff delay BackoffElapsed hands
\* them to adjustRateLimit.
TestAdjustRateLimit(headers) ==
    /\ ~crashed
    /\ crawlPc = "idle"
    /\ retrying = <<>>
    /\ retryCalls[retryUrl] < maxRetries
    /\ handleRetry(retryUrl, headers)
    /\ UNCHANGED <<visitedUrls, maxConcurrency, activeRequests, maxRetries,
                   crawledData, dynamicDelay, crawlPc, fetching, output, gets,
                   enqueued, crashed, lastAdjust, construction, pageLinks,
                   enqueueOrder>>

RateNext ==
    \/ \E headers \in AllHeaders \cup {NoHeaders} : TestAdjustRateLimit(headers)
    \/ BackoffElapsed

RateSpec == RateInit /\ [][RateNext]_vars

\* ------------------------------------------------ construction on any seed
\* new WebCrawler(seed, concurrency, retries).  A constructor that throws
\* leaves no object: the fields it had not assigned yet are undefined, and
\* no method can be called.
construct(seed, concurrency, retries) ==
    IF ConstructorError(seed) = NoError
    THEN constructor(concurrency, retries)
    ELSE /\ visitedUrls = Undefined
         /\ urlQueue = Undefined
         /\ maxConcurrency = Undefined
         /\ activeRequests = Undefined
         /\ maxRetries = Undefined
         /\ retryCounts = Undefined
         /\ crawledData = Undefined
         /\ failedUrls = Undefined
         /\ dynamicDelay = Undefined
         /\ crawlPc = "unconstructed"
         /\ fetching = [u \in Urls |-> 0]
         /\ retrying = <<>>
         /\ output = <<>>
         /\ crashed = FALSE
         /\ gets = [u \in Urls |-> 0]
         /\ enqueued = {}
         /\ retryCalls = [u \in Urls |-> 0]
         /\ lastAdjust = NoCall
         /\ construction = [seed |-> seed, error |-> ConstructorError(seed)]
         /\ pageLinks = EmptyMap
         /\ enqueueOrder = <<>>

ConstructInit ==
    \E seed \in SeedInputs :
        \E concurrency \in 1 .. MaxConcurrencyBound :
            \E retries \in 0 .. MaxRetriesBound :
                construct(seed, concurrency, retries)

ConstructSpec == ConstructInit /\ [][Next]_vars

\* ================================================================== claims
\* The number of fetchAndProcess tasks dispatched and not yet settled.
RECURSIVE SumOver(_, _)
SumOver(f, S) ==
    IF S = {} THEN 0
    ELSE LET x == CHOOSE y \in S : TRUE
         IN f[x] + SumOver(f, S \ {x})

InFlight == SumOver(fetching, Urls)

\* crawl() has returned and no handleRetry is suspended: nothing is pending.
Quiescent == crawlPc = "done" /\ retrying = <<>>

\* C1: in every reachable state of a crawl() session the number of
\* dispatched, unsettled fetchAndProcess tasks, and the activeRequests
\* counter, are at most maxConcurrency.
C1_ConcurrencyCeiling ==
    /\ activeRequests <= maxConcurrency
    /\ InFlight <= maxConcurrency

\* C1 witness: the ceiling has held a queued URL back: crawl() is polling
\* with a non-empty queue and every slot taken.
C1_Witness ==
    /\ crawlPc = "delay"
    /\ urlQueue # <<>>
    /\ activeRequests = maxConcurrency
    /\ InFlight = maxConcurrency

\* C2 (as claimed): a URL whose fetch failed with its retry count below
\* maxRetries is fetched again.  Stated for the sessions most favourable to
\* it: crawl() has returned, every handleRetry has requeued its URL and the
\* queue has been emptied; then every URL whose count was incremented has
\* had at least two GETs.
C2_RetriedUrlIsRefetched ==
    (Quiescent /\ urlQueue = <<>>) =>
        \A u \in DOMAIN retryCounts : retryCounts[u] >= 1 => gets[u] >= 2

\* C3 (as claimed): when crawl() completes, every URL whose fetch attempts
\* all failed is a key of failedUrls, and so of the failed-URL output.
\* Stated for the sessions in which every retry was requeued and dequeued
\* before completion.
C3_FailedUrlsRecorded ==
    (Quiescent /\ urlQueue = <<>>) =>
        \A u \in Urls :
            (gets[u] > 0 /\ u \notin DOMAIN crawledData) =>
                /\ u \in DOMAIN failedUrls
                /\ u \in DOMAIN output[1].failedUrls

\* C4 (as claimed): once retryCounts[u] has reached maxRetries,
\* failedUrls[u] equals maxRetries.
C4_FailedOnceCountReachesMax ==
    \A u \in DOMAIN retryCounts :
        retryCounts[u] = maxRetries =>
            u \in DOMAIN failedUrls /\ failedUrls[u] = maxRetries

\* C4 (amended): failedUrls[u] is written by the handleRetry(u) call that
\* finds retryCounts[u] equal to maxRetries, not by the call that raises
\* the count to maxRetries.  After n <= maxRetries calls retryCounts[u] is n
\* and failedUrls has no entry for u; from call maxRetries + 1 on
\* failedUrls[u] = retryCounts[u] = maxRetries.  Once the count of a
\* dispatched URL has reached maxRetries, no further GET is issued for it.
C4_FailedOnCallAfterMax ==
    /\ [](\A u \in Urls :
            /\ (0 < retryCalls[u] /\ retryCalls[u] <= maxRetries) =>
                  /\ u \in DOMAIN retryCounts
                  /\ retryCounts[u] = retryCalls[u]
                  /\ u \notin DOMAIN failedUrls
            /\ retryCalls[u] > maxRetries =>
                  /\ u \in DOMAIN retryCounts /\ retryCounts[u] = maxRetries
                  /\ u \in DOMAIN failedUrls /\ failedUrls[u] = maxRetries
            /\ retryCalls[u] = 0 =>
                  u \notin DOMAIN retryCounts /\ u \notin DOMAIN failedUrls)
    /\ [][\A u \in Urls :
            (u \in DOMAIN retryCounts /\ retryCounts[u] = maxRetries
             /\ gets[u] > 0) => gets'[u] = gets[u]]_vars

\* C4 witness: with maxRetries = 3, exactly three handleRetry calls have
\* been made and awaited for a URL: its count is 3, it has been requeued
\* three times and failedUrls has no entry for it.
C4_Witness ==
    /\ maxRetries = 3
    /\ retryCalls[retryUrl] = 3
    /\ retrying = <<>>
    /\ retryCounts[retryUrl] = 3
    /\ retryUrl \notin DOMAIN failedUrls
    /\ urlQueue = <<startUrl, retryUrl, retryUrl, retryUrl>>

\* C5: a handleRetry(u) call made when retryCounts[u] already equals
\* maxRetries leaves retryCounts unchanged, sets failedUrls[u] to
\* maxRetries, and neither appends to urlQueue nor suspends to do so later;
\* the visited set is unchanged.
C5_ExhaustedRetryFrame ==
    [][\A u \in Urls :
          (/\ retryCalls'[u] = retryCalls[u] + 1
           /\ u \in DOMAIN retryCounts
           /\ retryCounts[u] = maxRetries) =>
              /\ retryCounts' = retryCounts
              /\ u \in DOMAIN failedUrls'
              /\ failedUrls'[u] = maxRetries
              /\ \A v \in DOMAIN failedUrls \ {u} :
                    v \in DOMAIN failedUrls' /\ failedUrls'[v] = failedUrls[v]
              /\ urlQueue' = urlQueue
              /\ retrying' = retrying
              /\ visitedUrls' = visitedUrls]_vars

\* C5 witness: the fourth awaited handleRetry call on a URL with
\* maxRetries = 3 has been made: the count is still 3, the failure is
\* recorded and the queue still holds the three earlier requeues only.
C5_Witness ==
    /\ maxRetries = 3
    /\ retryCalls[retryUrl] = 4
    /\ retryCounts[retryUrl] = 3
    /\ retryUrl \in DOMAIN failedUrls
    /\ failedUrls[retryUrl] = 3
    /\ retrying = <<>>
    /\ urlQueue = <<startUrl, retryUrl, retryUrl, retryUrl>>

\* The program has stopped: the process was ended, or crawl() has returned
\* and nothing is pending.
Stopped == crashed \/ Quiescent

\* C6 (as claimed): every URL put in urlQueue is eventually dequeued and
\* dispatched exactly once; so once the program has stopped, every URL ever
\* enqueued is visited and has had exactly one GET.
C6_EveryQueuedUrlDispatchedOnce ==
    Stopped => \A u \in enqueued : u \in visitedUrls /\ gets[u] = 1

\* C7: every queue entry, every URL held by a suspended handleRetry and
\* every URL ever enqueued, marked visited or dispatched has the seed's
\* hostname.
C7_SameDomainOnly ==
    /\ \A i \in 1 .. Len(urlQueue) : Hostname(urlQueue[i]) = domainName
    /\ \A i \in 1 .. Len(retrying) : Hostname(retrying[i].url) = domainName
    /\ \A u \in Urls :
          (\/ u \in enqueued \/ u \in visitedUrls
           \/ gets[u] > 0 \/ fetching[u] > 0)
              => Hostname(u) = domainName

\* C7 witness: a fetched page had a link to another host and a link to the
\* seed's host; crawledData lists both and only the second is in the queue.
C7_Witness ==
    \E u \in DOMAIN crawledData :
        /\ \E i \in 1 .. Len(crawledData[u]) :
              Hostname(crawledData[u][i]) # domainName
        /\ \E i \in 1 .. Len(crawledData[u]) :
              crawledData[u][i] \in Range(urlQueue)

C9_RunsToCompletion == output # <<>> \/ ENABLED Next

\* C10 (as claimed): when crawl() has handed the results to writeToFiles,
\* urlQueue is empty, activeRequests is 0 and no handleRetry invocation is
\* suspended in its backoff delay.
C10_NothingPendingAtCompletion ==
    crawlPc = "done" =>
        /\ urlQueue = <<>>
        /\ activeRequests = 0
        /\ retrying = <<>>

\* The part of C6 that does not depend on the process surviving: whenever
\* crawl() has completed, every URL ever enqueued is visited and has had
\* exactly one GET.
QueuedDispatchedOnceAtCompletion ==
    crawlPc = "done" => \A u \in enqueued : u \in visitedUrls /\ gets[u] = 1

\* Where the process is not ended by an unhandled rejection, crawl() does
\* leave its loop: the polling loop itself terminates.
TerminatesUnlessKilled == <>(crashed \/ (crawlPc = "done" /\ output # <<>>))

\* C11: dynamicDelay is at least 100 in every reachable state, whatever
\* headers the adjustRateLimit calls were given.
C11_DelayAtLeastFloor == dynamicDelay >= 100

\* C11 witness: adjustRateLimit was called with a non-zero quota when the
\* delay was 125; half of it is below the floor and the delay is 100.
C11_Witness ==
    /\ lastAdjust.headers.defined
    /\ lastAdjust.headers.remaining \notin {Absent, 0}
    /\ lastAdjust.before = 125
    /\ dynamicDelay = 100

\* C12: after an adjustRateLimit call whose headers carry no retry-after,
\* the delay is max(2 * previous, 1000) if x-ratelimit-remaining is 0,
\* max(100, previous / 2) if it is present and not 0, and the previous
\* delay if it is missing.
C12_QuotaAdjustment ==
    (lastAdjust.headers.defined /\ lastAdjust.headers.retryAfter = Absent) =>
        LET previous == lastAdjust.before
            remaining == lastAdjust.headers.remaining
        IN /\ remaining = 0 =>
                 /\ dynamicDelay >= 2 * previous /\ dynamicDelay >= 1000
                 /\ dynamicDelay \in {2 * previous, 1000}
           /\ remaining \notin {Absent, 0} =>
                 \/ 2 * dynamicDelay = previous /\ dynamicDelay >= 100
                 \/ previous < 200 /\ dynamicDelay = 100
           /\ remaining = Absent => dynamicDelay = previous

\* C12 witness: a call with quota left found the delay at 1000, where an
\* earlier call with the quota used up had put it, and halved it.
C12_Witness ==
    /\ lastAdjust.headers.defined
    /\ lastAdjust.headers.retryAfter = Absent
    /\ lastAdjust.headers.remaining = 5
    /\ lastAdjust.before = 1000
    /\ dynamicDelay = 500

\* C13 (as claimed): after an adjustRateLimit call whose headers carry
\* retry-after = s, the delay is the maximum of the quota-adjusted delay
\* and s * 1000.
C13_RetryAfterRaisesDelay ==
    (lastAdjust.headers.defined /\ lastAdjust.headers.retryAfter # Absent) =>
        dynamicDelay = Max(QuotaAdjust(lastAdjust.before, lastAdjust.headers),
                           lastAdjust.headers.retryAfter * 1000)

\* C14 (as claimed): no fetchAndProcess, handleRetry or adjustRateLimit
\* invocation ends in an unhandled rejection that aborts the crawl.
C14_NoErrorAbortsCrawl == ~crashed

\* The fields the constructor creates on lines 19-27 do not exist.
NoCrawlState ==
    /\ visitedUrls = Undefined
    /\ urlQueue = Undefined
    /\ maxConcurrency = Undefined
    /\ activeRequests = Undefined
    /\ maxRetries = Undefined
    /\ retryCounts = Undefined
    /\ crawledData = Undefined
    /\ failedUrls = Undefined
    /\ dynamicDelay = Undefined

\* C15: a missing or empty seed fails with 'Start URL is required.', a
\* non-empty seed that does not parse fails with 'Invalid URL provided.',
\* a different message; in both cases no crawl state exists and none is
\* ever created.  A seed that parses throws nothing.
C15_ConstructorRejectsBadSeed ==
    /\ construction.seed \in {Undefined, ""} =>
          construction.error = "Start URL is required." /\ NoCrawlState
    /\ (construction.seed \notin {Undefined, ""}
          /\ ~ParsesAsUrl(construction.seed)) =>
          construction.error = "Invalid URL provided." /\ NoCrawlState
    /\ ParsesAsUrl(construction.seed) =>
          construction.error = NoError /\ urlQueue # Undefined

\* C15 witness: the constructor was handed a non-empty string that is not
\* a URL and threw the second message.
C15_Witness ==
    /\ construction.seed = "invalid-url"
    /\ construction.error = InvalidError
    /\ NoCrawlState

\* The position of the first occurrence of x in s.
FirstIndex(s, x) ==
    CHOOSE i \in 1 .. Len(s) : s[i] = x /\ \A k \in 1 .. (i - 1) : s[k] # x

\* C16: for every key u of crawledData, crawledData[u] has no duplicates,
\* holds exactly the links extracted from u's page, and lists them in the
\* order of their first occurrence on the page.
C16_UniqueLinksInFirstSeenOrder ==
    \A u \in DOMAIN crawledData :
        LET unique == crawledData[u]
            raw == pageLinks[u]
        IN /\ \A i, j \in 1 .. Len(unique) : unique[i] = unique[j] => i = j
           /\ Range(unique) = Range(raw)
           /\ \A i, j \in 1 .. Len(unique) :
                 i < j =>
                     FirstIndex(raw, unique[i]) < FirstIndex(raw, unique[j])

\* C16 witness: a fetched page had three anchors, the first link coming
\* back after another one; crawledData lists the two links, the repeated
\* one first.
C16_Witness ==
    \E u \in DOMAIN crawledData :
        /\ pageLinks[u] = RepeatingPage
        /\ crawledData[u] = <<RepeatingPage[1], RepeatingPage[2]>>

\* C17 (as claimed), on the seed's page: once the seed's fetch has
\* succeeded and before anything else is dispatched, urlQueue holds every
\* element of the raw link sequence whose hostname is domainName, once per
\* occurrence, in document order.
C17_EnqueuesEverySameDomainLink ==
    (DOMAIN pageLinks = {startUrl} /\ visitedUrls = {startUrl}) =>
        urlQueue = SelectSeq(pageLinks[startUrl],
                             LAMBDA link : Hostname(link) = domainName)

\* C17 (amended): the step in which the fetch of u succeeds appends to
\* urlQueue every element of the raw link sequence whose hostname is
\* domainName and that is not in visitedUrls at that moment, once per
\* occurrence and in document order; links to visited URLs, the page's own
\* URL among them, are not appended.
C17_EnqueuesUnvisitedSameDomainLinks ==
    [][\A u \in Urls :
          (u \notin DOMAIN pageLinks /\ u \in DOMAIN pageLinks') =>
              urlQueue' = urlQueue \o
                  SelectSeq(pageLinks'[u],
                            LAMBDA link : /\ Hostname(link) = domainName
                                          /\ link \notin visitedUrls)]_vars

\* C17 witness: the seed's page linked to the seed and to a second page,
\* and only the second page was enqueued; the second page linked twice to
\* a third page, which is in the queue twice.
C17_Witness ==
    /\ startUrl \in DOMAIN pageLinks /\ retryUrl \in DOMAIN pageLinks
    /\ pageLinks[startUrl] = <<startUrl, retryUrl>>
    /\ Len(pageLinks[retryUrl]) = 2
    /\ pageLinks[retryUrl][1] = pageLinks[retryUrl][2]
    /\ urlQueue = pageLinks[retryUrl]
    /\ Hostname(urlQueue[1]) = domainName
    /\ urlQueue[1] \notin visitedUrls

\* C18: visitedUrls is exactly the set of URLs for which a GET has been
\* issued, and the only step that adds to it adds the head of the queue
\* and issues the GET for it.
C18_VisitedIffDispatched ==
    /\ [](visitedUrls = {u \in Urls : gets[u] > 0})
    /\ [][visitedUrls' # visitedUrls =>
            /\ urlQueue # <<>>
            /\ visitedUrls' = visitedUrls \cup {Head(urlQueue)}
            /\ gets'[Head(urlQueue)] = gets[Head(urlQueue)] + 1
            /\ fetching'[Head(urlQueue)] = fetching[Head(urlQueue)] + 1]_vars

\* C18 witness: a fetched page's link has been discovered, recorded in
\* crawledData and enqueued, and is not visited: no GET was issued for it.
C18_Witness ==
    \E u \in DOMAIN crawledData :
        \E i \in 1 .. Len(urlQueue) :
            /\ urlQueue[i] \in Range(crawledData[u])
            /\ urlQueue[i] \notin visitedUrls
            /\ gets[urlQueue[i]] = 0

\* The step is the success continuation of a fetch of u.
SuccessStepOf(u) ==
    /\ fetching'[u] = fetching[u] - 1
    /\ retryCalls' = retryCalls

\* The step is a handleRetry(u) call that takes the exhausted branch.
ExhaustedStepOf(u) ==
    /\ retryCalls'[u] = retryCalls[u] + 1
    /\ IF u \in DOMAIN retryCounts
       THEN retryCounts[u] >= maxRetries
       ELSE maxRetries = 0

\* C19: crawledData has an entry exactly for the URLs whose fetch has
\* succeeded; the success step of u finds no entry for u, and so does the
\* step that writes failedUrls[u]; an entry of either mapping is never
\* changed or removed by a later step.
C19_RecordsWrittenOnce ==
    /\ [](DOMAIN crawledData = DOMAIN pageLinks)
    /\ [][\A u \in Urls :
            /\ SuccessStepOf(u) =>
                  u \notin DOMAIN crawledData /\ u \in DOMAIN crawledData'
            /\ ExhaustedStepOf(u) =>
                  u \notin DOMAIN failedUrls /\ u \in DOMAIN failedUrls'
            /\ u \in DOMAIN crawledData =>
                  /\ u \in DOMAIN crawledData'
                  /\ crawledData'[u] = crawledData[u]
            /\ u \in DOMAIN failedUrls =>
                  /\ u \in DOMAIN failedUrls'
                  /\ failedUrls'[u] = failedUrls[u]]_vars

\* C19 witness: crawl() has completed with one URL's links recorded and
\* another URL recorded as failed, both as they are in the written output.
C19_Witness ==
    /\ crawlPc = "done"
    /\ DOMAIN crawledData # {}
    /\ DOMAIN failedUrls # {}
    /\ output[1].crawledData = crawledData
    /\ output[1].failedUrls = failedUrls

\* C20: retryCounts[u] never exceeds maxRetries, and no step removes or
\* lowers it, the success of a later fetch of u included.
C20_RetryCountMonotoneAndCapped ==
    /\ [](\A u \in DOMAIN retryCounts : retryCounts[u] <= maxRetries)
    /\ [][\A u \in DOMAIN retryCounts :
            /\ u \in DOMAIN retryCounts'
            /\ retryCounts'[u] >= retryCounts[u]]_vars

\* C20 witness: a URL was handed to handleRetry more often than
\* maxRetries, and a fetch of it succeeded afterwards: its count is
\* still maxRetries.
C20_Witness ==
    /\ retryUrl \in DOMAIN retryCounts
    /\ retryCalls[retryUrl] > maxRetries
    /\ retryCounts[retryUrl] = maxRetries
    /\ retryUrl \in DOMAIN crawledData

\* The position of u in the history of first enqueues.
EnqueueRank(u) == FirstIndex(enqueueOrder, u)

\* C21: entries leave urlQueue at the head and enter it at the tail, and
\* the step that dispatches a URL finds every URL that was first enqueued
\* before it already dispatched; so the URLs dispatched are, in order, the
\* first URLs ever enqueued.
C21_FrontierIsFifo ==
    /\ [][urlQueue' # urlQueue =>
            \/ urlQueue # <<>> /\ urlQueue' = Tail(urlQueue)
            \/ /\ Len(urlQueue') > Len(urlQueue)
               /\ SubSeq(urlQueue', 1, Len(urlQueue)) = urlQueue]_vars
    /\ [][\A b \in Urls :
            gets'[b] > gets[b] =>
                /\ b \in Range(enqueueOrder)
                /\ \A i \in 1 .. (EnqueueRank(b) - 1) :
                      enqueueOrder[i] \in visitedUrls]_vars
    /\ [](\A i \in 1 .. Len(enqueueOrder) :
            enqueueOrder[i] \in visitedUrls =>
                \A k \in 1 .. (i - 1) : enqueueOrder[k] \in visitedUrls)

\* C21 witness: two URLs were discovered on the seed's page; the one
\* enqueued first has been dispatched and the other is still waiting at
\* the head of the queue.
C21_Witness ==
    /\ Len(enqueueOrder) = 3
    /\ enqueueOrder[2] \in visitedUrls
    /\ enqueueOrder[3] \notin visitedUrls
    /\ urlQueue # <<>>
    /\ Head(urlQueue) = enqueueOrder[3]

\* C22: activeRequests equals the number of dispatched fetchAndProcess
\* tasks not yet settled, is never negative and is 0 once crawl() has
\* completed; the step in which a fetch settles, by success or by failure,
\* lowers it by exactly one, and the step that dispatches a fetch raises it
\* by one.
C22_ActiveRequestsCountsInFlight ==
    /\ [](/\ activeRequests = InFlight
          /\ activeRequests >= 0
          /\ crawlPc = "done" => activeRequests = 0)
    /\ [][\A u \in Urls :
            /\ fetching'[u] < fetching[u] =>
                  /\ fetching'[u] = fetching[u] - 1
                  /\ activeRequests' = activeRequests - 1
            /\ fetching'[u] > fetching[u] =>
                  /\ fetching'[u] = fetching[u] + 1
                  /\ activeRequests' = activeRequests + 1]_vars

\* C22 witness: crawl() has completed after one fetch failed and another
\* succeeded; both have settled and the counter is back at 0.
C22_Witness ==
    /\ crawlPc = "done"
    /\ activeRequests = 0
    /\ InFlight = 0
    /\ \E u \in Urls : gets[u] = 1 /\ retryCalls[u] = 1
    /\ \E u \in Urls : gets[u] = 1 /\ u \in DOMAIN crawledData

====
